---------------------------- MODULE Spec2Model ----------------------------
(***************************************************************************)
(* Model of the texture pipeline of muonline-bmd-viewer:                   *)
(*   src/src/ozj-loader-node.ts  container sniffing and OZJ / OZT decoding *)
(*   src/src/bmd-to-glb.ts       texture discovery and binding in a        *)
(*                               conversion job (convertBmdToGlb)          *)
(*                                                                         *)
(* Four specifications share the variables:                                *)
(*   SniffSpec  convertOzjToBuffer applied to bounded byte buffers         *)
(*   ExtSpec    the extension check of loadAndApplyTexture on pairs        *)
(*   Spec       one conversion job over a bounded scene and directory      *)
(*   BindSpec   the job with the bind run statement by statement, over     *)
(*              scenes with shared materials and maps already held         *)
(***************************************************************************)
EXTENDS Integers, Sequences, FiniteSets, TLC

VARIABLES
    buf,        \* SniffSpec: the ArrayBuffer handed to convertOzjToBuffer
    res,        \* SniffSpec: what convertOzjToBuffer returned or threw
    spc,        \* SniffSpec: "input" before the call, "done" after it
    wantedExt,  \* ExtSpec: extension requested by a mesh
    fileExt,    \* ExtSpec: extension of the candidate file
    extRes,     \* ExtSpec: outcome of the extMatch expression
    objs,       \* Spec: the objects of the scene (group.traverse order)
    mats,       \* Spec: the material objects, by material id
    mats0,      \* Spec: the materials as the model parser left them
    files,      \* Spec: the files of the input directory, discovery order
    found,      \* Spec: foundTextures, in key insertion order
    idx,        \* Spec: position of the for..in loop of convertBmdToGlb
    tex,        \* Spec: the texture decoded by the current iteration
    disposed,   \* Spec: textures on which dispose() was called
    diags,      \* Spec: console.warn / console.error lines, in order
    thrown,     \* Spec: the exception that ended the job, if any
    pc,         \* Spec: position of the job
    pos,        \* BindSpec: position of meshList.forEach
    stmt,       \* BindSpec: statement of the forEach body to run next
    pre,        \* BindSpec: the scene and texture when the forEach began
    seen        \* BindSpec: the scene as another task last saw it

vars == <<buf, res, spc, wantedExt, fileExt, extRes, objs, mats, mats0,
          files, found, idx, tex, disposed, diags, thrown, pc,
          pos, stmt, pre, seen>>

sniffVars == <<buf, res, spc>>
extVars   == <<wantedExt, fileExt, extRes>>
bindVars  == <<pos, stmt, pre, seen>>
jobVars   == <<objs, mats, mats0, files, found, idx, tex, disposed, diags,
               thrown, pc, bindVars>>

Min(a, b) == IF a < b THEN a ELSE b

(***************************************************************************)
(* Bounds of the model.                                                    *)
(***************************************************************************)
MaxLen == 38        \* longest buffer given to convertOzjToBuffer

(***************************************************************************)
(* Byte buffers.  A buffer is a sequence of bytes 0..255; index i of the   *)
(* code is element i+1 of the sequence.                                    *)
(***************************************************************************)
Undefined == -1     \* reading a Uint8Array outside its length gives undefined

\* u8[i] on a Uint8Array (ozj-loader-node.ts:14, 79-82)
U8At(u8, i) == IF i >= 0 /\ i < Len(u8) THEN u8[i + 1] ELSE Undefined

\* storing a value in a Uint8Array: undefined is stored as 0
ToUint8(v) == IF v = Undefined THEN 0 ELSE v % 256

\* DataView.getInt16(off, true): little-endian, signed
GetInt16LE(u8, off) ==
    LET v == U8At(u8, off) + 256 * U8At(u8, off + 1)
    IN  IF v >= 32768 THEN v - 65536 ELSE v

(***************************************************************************)
(* convertOzjToBuffer and its two decoders (ozj-loader-node.ts).           *)
(* A result is a record                                                    *)
(*   kind     "bitmap" (the promise resolved) or "error" (it rejected)     *)
(*   error    the message of the Error thrown, "" for a bitmap             *)
(*   via      the decoder the buffer was handed to, "none" if neither      *)
(*   jpgStart the offset given to ozjToPng, -1 otherwise                   *)
(*   width, height, pixels   the bitmap returned                           *)
(*   reads    the byte indices the run read from the buffer                *)
(***************************************************************************)
ErrTooSmall    == "File too small for OZT"
ErrUnsupported == "Unsupported OZ? file"
ErrJpeg        == "Failed to decode JPEG"
ErrRange       == "RangeError: Offset is outside the bounds of the DataView"

Failure(msg, via, jpgStart, reads) ==
    [kind |-> "error", error |-> msg, via |-> via, jpgStart |-> jpgStart,
     width |-> 0, height |-> 0, pixels |-> <<>>, reads |-> reads]

Bitmap(via, jpgStart, w, h, px, reads) ==
    [kind |-> "bitmap", error |-> "", via |-> via, jpgStart |-> jpgStart,
     width |-> w, height |-> h, pixels |-> px, reads |-> reads]

\* What the external image codec (sharp) answers for a stream: it rejects it,
\* or returns RGBA pixels with the stream's own dimensions.
CodecOutcomes ==
    { [ok |-> FALSE, width |-> 0, height |-> 0, pixels |-> <<>>],
      [ok |-> TRUE,  width |-> 1, height |-> 1, pixels |-> <<9, 8, 7, 255>>] }

\* mutant of ScanLimit: the bound stops one position early
ScanLimitShort(size) == Min(30, size - 3)

\* mutant of ScanLimit: the bound forgets the two bytes that follow i
ScanLimitNoMargin(size) == Min(30, size)

\* the loop bound of the marker search: i < Math.min(30, size - 2)
ScanLimit(size) == Min(30, size - 2)

\* u8[i] === 0xff && u8[i + 1] === 0xd8 && u8[i + 2] === 0xff
IsSoiAt(u8, i) ==
    U8At(u8, i) = 255 /\ U8At(u8, i + 1) = 216 /\ U8At(u8, i + 2) = 255

\* the indices that the && chain reads at position i (it short-circuits)
SoiReads(u8, i) ==
    {i} \cup (IF U8At(u8, i) = 255
              THEN {i + 1} \cup (IF U8At(u8, i + 1) = 216 THEN {i + 2} ELSE {})
              ELSE {})

\* for (let i = 20; i < limit; i++) { if (marker at i) { jpgStart = i; break; } }
RECURSIVE ScanFrom(_, _, _)
ScanFrom(u8, i, limit) ==
    IF i >= limit THEN -1
    ELSE IF IsSoiAt(u8, i) THEN i
    ELSE ScanFrom(u8, i + 1, limit)

ScanJpgStart(u8) == ScanFrom(u8, 20, ScanLimit(Len(u8)))

\* the indices the marker search reads: every position up to the break
ScanReads(u8) ==
    LET limit == ScanLimit(Len(u8))
        hit   == ScanFrom(u8, 20, limit)
        last  == IF hit = -1 THEN limit - 1 ELSE hit
    IN  UNION { SoiReads(u8, i) : i \in 20..last }

\* ozjToPng: getUint8(17), then the slice from jpgStart goes to the codec
ozjToPng(u8, jpgStart, codec, reads) ==
    LET size == Len(u8)
        rd   == reads \cup {17} \cup (jpgStart..(size - 1))
    IN  IF 17 >= size THEN Failure(ErrRange, "ozjToPng", jpgStart, reads \cup {17})
        ELSE IF codec.ok
        THEN Bitmap("ozjToPng", jpgStart, codec.width, codec.height, codec.pixels, rd)
        ELSE Failure(ErrJpeg, "ozjToPng", jpgStart, rd)

\* mutant of OztCols: the quad is copied without exchanging B and R
RECURSIVE OztColsNoSwap(_, _, _, _, _)
OztColsNoSwap(src, nx, y, x, st) ==
    IF x >= nx THEN st
    ELSE LET i == (y * nx * 4) + x * 4
         IN  OztColsNoSwap(src, nx, y, x + 1,
                [offset |-> st.offset + 4,
                 rgba   |-> [st.rgba EXCEPT ![i]     = ToUint8(U8At(src, st.offset)),
                                            ![i + 1] = ToUint8(U8At(src, st.offset + 1)),
                                            ![i + 2] = ToUint8(U8At(src, st.offset + 2)),
                                            ![i + 3] = ToUint8(U8At(src, st.offset + 3))],
                 reads  |-> st.reads \cup (st.offset..(st.offset + 3))])

\* the inner loop of oztToPng, for (let x = 0; x < nx; x++), on row y;
\* st = [offset, rgba, reads] is the state the loops carry
RECURSIVE OztCols(_, _, _, _, _)
OztCols(src, nx, y, x, st) ==
    IF x >= nx THEN st
    ELSE LET b == U8At(src, st.offset)
             g == U8At(src, st.offset + 1)
             r == U8At(src, st.offset + 2)
             a == U8At(src, st.offset + 3)
             i == (y * nx * 4) + x * 4
         IN  OztCols(src, nx, y, x + 1,
                [offset |-> st.offset + 4,
                 rgba   |-> [st.rgba EXCEPT ![i]     = ToUint8(r),
                                            ![i + 1] = ToUint8(g),
                                            ![i + 2] = ToUint8(b),
                                            ![i + 3] = ToUint8(a)],
                 reads  |-> st.reads \cup (st.offset..(st.offset + 3))])

\* the outer loop of oztToPng, for (let y = 0; y < ny; y++)
RECURSIVE OztRows(_, _, _, _, _)
OztRows(src, nx, ny, y, st) ==
    IF y >= ny THEN st
    ELSE OztRows(src, nx, ny, y + 1, OztCols(src, nx, y, 0, st))

\* oztToPng(buf, nx, ny): offset starts at 22, rgba is zero-filled
oztToPng(u8, nx, ny, reads) ==
    LET n   == nx * ny * 4
        st0 == [offset |-> 22, rgba |-> [k \in 0..(n - 1) |-> 0], reads |-> reads]
        st  == OztRows(u8, nx, ny, 0, st0)
    IN  Bitmap("oztToPng", -1, nx, ny, [k \in 1..n |-> st.rgba[k - 1]], st.reads)

\* mutant of LooksLikeOzt: the expected size counts one byte per pixel
LooksLikeOztOneByte(nx, ny, depth, size) ==
    /\ nx > 0 /\ ny > 0
    /\ nx <= 1024 /\ ny <= 1024
    /\ depth = 32
    /\ 22 + nx * ny <= size

\* the test that decides whether the buffer is taken as OZT
LooksLikeOzt(nx, ny, depth, size) ==
    /\ nx > 0 /\ ny > 0
    /\ nx <= 1024 /\ ny <= 1024
    /\ depth = 32
    /\ 22 + nx * ny * 4 <= size

convertOzjToBuffer(u8, codec) ==
    LET size     == Len(u8)
        jpgStart == ScanJpgStart(u8)
        rd       == ScanReads(u8)
    IN  IF jpgStart # -1 THEN ozjToPng(u8, jpgStart, codec, rd)
        ELSE IF size < 22 THEN Failure(ErrTooSmall, "none", -1, rd)
        ELSE LET nx    == GetInt16LE(u8, 16)
                 ny    == GetInt16LE(u8, 18)
                 depth == U8At(u8, 20)
                 rd2   == rd \cup (16..20)
             IN  IF ~LooksLikeOzt(nx, ny, depth, size)
                 THEN Failure(ErrUnsupported, "none", -1, rd2)
                 ELSE oztToPng(u8, nx, ny, rd2)

(***************************************************************************)
(* The buffers of SniffSpec: a fill pattern, over which six header bytes   *)
(* (width, height, depth, reserved) and a JPEG marker may be written, cut  *)
(* to a length; and the worked example of the specification.               *)
(***************************************************************************)
FillByte(p, i) ==
    CASE p = "ramp" -> (i * 37 + 11) % 256
      [] p = "soi"  -> <<255, 216, 255>>[(i % 3) + 1]
      [] OTHER      -> 255

\* hdr = <<width, height, depth>> as 16-bit, 16-bit and 8-bit values
HeaderByte(hdr, i) ==
    CASE i = 16 -> hdr[1] % 256
      [] i = 17 -> hdr[1] \div 256
      [] i = 18 -> hdr[2] % 256
      [] i = 19 -> hdr[2] \div 256
      [] i = 20 -> hdr[3]
      [] OTHER  -> 0

\* hdr is <<>> for no header; markers is the set of offsets where FF D8 FF
\* is written
MakeBuffer(size, p, hdr, markers) ==
    [k \in 1..size |->
        LET i == k - 1
        IN  IF \E m \in markers : i \in m..(m + 2)
            THEN <<255, 216, 255>>[i - (CHOOSE m \in markers : i \in m..(m + 2)) + 1]
            ELSE IF hdr # <<>> /\ i \in 16..21 THEN HeaderByte(hdr, i)
            ELSE FillByte(p, i)]

Widths     == {0, 1, 2, 1024, 1025, 32769}
Heights    == {0, 1, 2, 4, 65535}
Depths     == {32, 24}
Fills      == {"ramp", "soi", "ff"}
Headers    == {<<>>} \cup (Widths \X Heights \X Depths)
Markers    == {{}} \cup { {m} : m \in {19, 20, 21, 25, 27, 28, 29, 30} }

\* 22-byte header with width 2, height 1, depth 32, then two BGRA quads
ExampleOzt ==
    [k \in 1..16 |-> 0] \o <<2, 0, 1, 0, 32, 0>> \o
    <<0, 0, 255, 255, 16, 32, 48, 255>>

SniffBuffers ==
    { MakeBuffer(size, p, hdr, m) :
        size \in 0..MaxLen, p \in Fills, hdr \in Headers, m \in Markers }
    \cup { ExampleOzt }

NoResult == Failure("", "none", -1, {})

(***************************************************************************)
(* Strings.  A string of the program is a sequence of one-character        *)
(* strings, so that lower-casing, splitting and the regular expression of  *)
(* the code are computed and not assumed.                                  *)
(***************************************************************************)
UpperChars == <<"A", "B", "C", "D", "E", "F", "G", "H", "I", "J", "K", "L", "M",
                "N", "O", "P", "Q", "R", "S", "T", "U", "V", "W", "X", "Y", "Z">>
LowerChars == <<"a", "b", "c", "d", "e", "f", "g", "h", "i", "j", "k", "l", "m",
                "n", "o", "p", "q", "r", "s", "t", "u", "v", "w", "x", "y", "z">>

\* String.prototype.toLowerCase, on the letters the model's strings use
ToLowerChar(c) ==
    IF \E k \in 1..Len(UpperChars) : UpperChars[k] = c
    THEN LowerChars[CHOOSE k \in 1..Len(UpperChars) : UpperChars[k] = c]
    ELSE c

ToLower(s) == [k \in 1..Len(s) |-> ToLowerChar(s[k])]

\* position of the last character of s that is in cs, 0 if there is none
LastIndexIn(s, cs) ==
    LET hits == {k \in 1..Len(s) : s[k] \in cs}
    IN  IF hits = {} THEN 0 ELSE CHOOSE k \in hits : \A j \in hits : j <= k

\* s.split(/[\\/]/).pop()  and  s.split('.').pop()
LastSegment(s, seps) == SubSeq(s, LastIndexIn(s, seps) + 1, Len(s))

\* s.replace(/\.[^.]+$/, ''): drops a final dot followed by one or more
\* characters that are not dots
StripExt(s) ==
    LET d == LastIndexIn(s, {"."})
    IN  IF d > 0 /\ d < Len(s) THEN SubSeq(s, 1, d - 1) ELSE s

\* path.basename(p) of Node (POSIX separators): the last component of
\* the path, separators at the end of the path left aside
PathBasename(p) ==
    LET ends == {k \in 1..Len(p) : p[k] # "/"}
        e    == IF ends = {} THEN 0 ELSE CHOOSE k \in ends : \A j \in ends : j <= k
    IN  LastSegment(SubSeq(p, 1, e), {"/"})

\* path.extname(p) of Node: from the last dot of the last component; ""
\* when it has no dot, when its only dot is its first character, and when
\* the component is ".."
PathExtname(p) ==
    LET b == PathBasename(p)
        d == LastIndexIn(b, {"."})
    IN  IF d <= 1 \/ b = <<".", ".">> THEN <<>> ELSE SubSeq(b, d, Len(b))

\* path.basename(p, ext) of Node: "" when the path is the suffix itself;
\* the suffix is removed from the last component unless it is the whole of
\* it
PathBasenameExt(p, ext) ==
    LET b == PathBasename(p)
        n == Len(b) - Len(ext)
    IN  IF ext # <<>> /\ p = ext THEN <<>>
        ELSE IF ext # <<>> /\ n > 0 /\ SubSeq(b, n + 1, Len(b)) = ext
        THEN SubSeq(b, 1, n) ELSE b

\* normalizeWanted of loadAndApplyTexture (bmd-to-glb.ts:157-162)
normalizeWanted(path) ==
    LET name == ToLower(LastSegment(path, {"/", "\\"}))
    IN  [base |-> StripExt(name), ext |-> LastSegment(name, {"."})]

(***************************************************************************)
(* The extension check of loadAndApplyTexture (bmd-to-glb.ts:144-172).     *)
(***************************************************************************)
JPG  == <<"j", "p", "g">>
JPEG == <<"j", "p", "e", "g">>
PNG  == <<"p", "n", "g">>
TGA  == <<"t", "g", "a">>
OZJ  == <<"o", "z", "j">>
OZT  == <<"o", "z", "t">>
BMP  == <<"b", "m", "p">>
CONSTRUCTOR == <<"c", "o", "n", "s", "t", "r", "u", "c", "t", "o", "r">>
PROTO == <<"_", "_", "p", "r", "o", "t", "o", "_", "_">>

KnownExts == {JPG, JPEG, PNG, TGA, OZJ, OZT}

\* the own properties of the object literal equivExt
equivExt ==
    [e \in KnownExts |->
        CASE e = JPG  -> <<OZJ, JPEG>>
          [] e = JPEG -> <<OZJ, JPG>>
          [] e = OZJ  -> <<JPG, JPEG, PNG>>
          [] e = PNG  -> <<OZJ, OZT>>
          [] e = TGA  -> <<OZT, PNG>>
          [] e = OZT  -> <<TGA, PNG>>]

\* the lower-case property names every object literal inherits from
\* Object.prototype: their values are objects without an includes method
InheritedKeys == {CONSTRUCTOR, PROTO}

\* equivExt[key]: an array, an inherited object, or undefined
EquivLookup(key) ==
    IF key \in KnownExts THEN [kind |-> "array", items |-> equivExt[key]]
    ELSE IF key \in InheritedKeys THEN [kind |-> "object", items |-> <<>>]
    ELSE [kind |-> "undefined", items |-> <<>>]

\* equivExt[key]?.includes(x): true, false, undefined (falsy) or a TypeError
\* ("includes is not a function")
OptIncludes(key, x) ==
    LET v == EquivLookup(key)
    IN  CASE v.kind = "undefined" -> "undefined"
          [] v.kind = "object"    -> "TypeError"
          [] OTHER -> IF \E k \in 1..Len(v.items) : v.items[k] = x
                      THEN "true" ELSE "false"

\* wantedExt === fileExt || equivExt[wantedExt]?.includes(fileExt)
\*                       || equivExt[fileExt]?.includes(wantedExt)
\* evaluated left to right: "true", "false" (or undefined) or "TypeError"
extMatch(wanted, file) ==
    IF wanted = file THEN "true"
    ELSE LET fwd == OptIncludes(wanted, file)
         IN  IF fwd \in {"true", "TypeError"} THEN fwd
             ELSE LET bwd == OptIncludes(file, wanted)
                  IN  IF bwd \in {"true", "TypeError"} THEN bwd ELSE "false"

\* the extensions ExtSpec tries: the six of the table, one absent from it,
\* the empty extension and two inherited property names
ExtUniverse == KnownExts \cup {BMP, <<>>, CONSTRUCTOR, PROTO}

(***************************************************************************)
(* The scene, the directory and the textures of a conversion job.          *)
(*   object    [isMesh, texturePath, mat]   texturePath <<>> when untagged *)
(*   material  [map, color, transparent, blending, depthWrite, needsUpdate]*)
(*   texture   [id, name]   id is the iteration that created it            *)
(*   file      [name, data] data tells what the bytes of the file are      *)
(***************************************************************************)
NumObjs  == 2       \* objects in the scene
MaxFiles == 2       \* files the directory walk finds

NoTex == [id |-> 0, name |-> <<>>]

Dot == <<".">>

\* validExtensions of searchTextures (bmd-to-glb.ts:63)
validExtensions == { Dot \o e : e \in KnownExts }

Digits == <<"0", "1", "2", "3", "4", "5", "6", "7", "8", "9">>

DigitOf(c) == CHOOSE d \in 1..Len(Digits) : Digits[d] = c

\* a < b for strings of digits of the same length
RECURSIVE DigitsLess(_, _, _)
DigitsLess(a, b, i) ==
    IF i > Len(a) THEN FALSE
    ELSE IF a[i] # b[i] THEN DigitOf(a[i]) < DigitOf(b[i])
    ELSE DigitsLess(a, b, i + 1)

\* a < b for canonical numeric strings
IndexLess(a, b) ==
    Len(a) < Len(b) \/ (Len(a) = Len(b) /\ DigitsLess(a, b, 1))

\* the largest array index of ECMAScript, 2^32 - 2
MaxIndexKey == <<"4", "2", "9", "4", "9", "6", "7", "2", "9", "4">>

\* property keys that are array indices ("0", "1", "42", not "01"): an
\* object lists them first, in ascending numeric order
IsIndexKey(n) ==
    /\ Len(n) > 0
    /\ \A i \in 1..Len(n) : \E d \in 1..Len(Digits) : Digits[d] = n[i]
    /\ Len(n) = 1 \/ n[1] # "0"
    /\ ~IndexLess(MaxIndexKey, n)

\* foundTextures[key] = [] for a new key: the object with the key added,
\* its own keys in the order for..in lists them (bmd-to-glb.ts:21, 93)
PutKey(acc, entry) ==
    IF IsIndexKey(entry.name)
    THEN LET before == {j \in 1..Len(acc) :
                           IsIndexKey(acc[j].name)
                           /\ IndexLess(acc[j].name, entry.name)}
             n == Cardinality(before)
         IN  SubSeq(acc, 1, n) \o <<entry>> \o SubSeq(acc, n + 1, Len(acc))
    ELSE Append(acc, entry)

\* searchDir stops below this depth: if (depth > 3) return;
MaxDepth == 3

\* path.join(dirPath, entry.name), relative to the input directory
RECURSIVE JoinPath(_, _)
JoinPath(dir, name) ==
    IF dir = <<>> THEN name
    ELSE Head(dir) \o <<"/">> \o JoinPath(Tail(dir), name)

\* directory d is directory e or lies below it
IsBelow(d, e) == Len(e) <= Len(d) /\ SubSeq(d, 1, Len(e)) = e

\* the first entry after k that is outside directory dir and the
\* directories below it
RestAfterDir(fs, k, dir) ==
    LET out == {j \in (k + 1)..Len(fs) : ~IsBelow(fs[j].dir, dir)}
    IN  IF out = {} THEN Len(fs) + 1 ELSE CHOOSE j \in out : \A i \in out : j <= i

\* searchDir over the entries of the tree, in the order the walk meets
\* them; an entry is [dir, name, kind, data], dir the directories from the
\* input directory down to it.  acc is foundTextures, a sequence of
\* [name, paths] in the order for..in lists the keys.
\*   line 72      directories deeper than MaxDepth are not read
\*   line 83      only regular files are looked at
\*   lines 92-95  foundTextures is a plain object: for a base name it
\*                inherits from Object.prototype the test is truthy and
\*                push throws a TypeError
\*   line 100     the catch of the searchDir call in which it was thrown
\*                swallows it: the rest of that directory, with what lies
\*                below it, is skipped, and the walk goes on in its parent
RECURSIVE SearchFrom(_, _, _, _)
SearchFrom(fs, k, requiredNames, acc) ==
    IF k > Len(fs) THEN acc
    ELSE LET lowerName      == ToLower(fs[k].name)
             ext            == PathExtname(lowerName)
             nameWithoutExt == PathBasenameExt(lowerName, ext)
             fullPath       == [name |-> JoinPath(fs[k].dir, fs[k].name),
                                data |-> fs[k].data]
             at             == {j \in 1..Len(acc) : acc[j].name = nameWithoutExt}
         IN  IF Len(fs[k].dir) > MaxDepth \/ fs[k].kind # "file"
             THEN SearchFrom(fs, k + 1, requiredNames, acc)
             ELSE IF ext \in validExtensions /\ nameWithoutExt \in requiredNames
             THEN IF nameWithoutExt \in InheritedKeys
                  THEN SearchFrom(fs, RestAfterDir(fs, k, fs[k].dir),
                                  requiredNames, acc)
                  ELSE IF at = {}
                  THEN SearchFrom(fs, k + 1, requiredNames,
                          PutKey(acc, [name |-> nameWithoutExt, paths |-> <<fullPath>>]))
                  ELSE LET j == CHOOSE j \in at : TRUE
                       IN  SearchFrom(fs, k + 1, requiredNames,
                              [acc EXCEPT ![j].paths = Append(@, fullPath)])
             ELSE SearchFrom(fs, k + 1, requiredNames, acc)

\* searchTextures(startPath, requiredTextures) (bmd-to-glb.ts:61-108)
searchTextures(fs, requiredTextures) ==
    LET requiredNames ==
            { ToLower(PathBasenameExt(t, PathExtname(t))) : t \in requiredTextures }
    IN  SearchFrom(fs, 1, requiredNames, <<>>)

\* the texture names the model parser reports: the tags of the meshes
requiredTexturesOf(os) ==
    { os[i].texturePath : i \in {j \in 1..Len(os) : os[j].isMesh /\ os[j].texturePath # <<>>} }

\* the bytes of a file, by what the file holds
FileBytes(data) ==
    CASE data = "ozt"   -> ExampleOzt
      [] data = "ozj"   -> MakeBuffer(32, "ramp", <<>>, {24})
      [] data = "image" -> MakeBuffer(32, "ramp", <<>>, {0})
      [] OTHER          -> MakeBuffer(26, "ramp", <<2, 2, 32>>, {})

\* the answer of the external codecs (sharp, decodeTga) for the file, or
\* for the stream embedded in it
CodecFor(data) ==
    CHOOSE c \in CodecOutcomes : c.ok = (data \in {"image", "ozj"})

\* the first half of loadAndApplyTexture (bmd-to-glb.ts:110-137): read the
\* file and decode it by its extension; "" when a texture was built,
\* otherwise the message of the error thrown
loadError(file) ==
    LET ext == ToLower(PathExtname(file.name))
    IN  IF ext = Dot \o TGA
        THEN IF file.data = "image" THEN "" ELSE "Invalid TGA"
        ELSE IF ext \in {Dot \o OZJ, Dot \o OZT}
        THEN convertOzjToBuffer(FileBytes(file.data), CodecFor(file.data)).error
        ELSE IF file.data = "image" THEN "" ELSE "Input buffer contains unsupported image format"

\* fileBase and fileExt of loadAndApplyTexture (bmd-to-glb.ts:111, 153-155)
fileBaseOf(name) == StripExt(ToLower(PathBasename(name)))
fileExtOf(name)  == LET ext == ToLower(PathExtname(name))
                    IN  SubSeq(ext, 2, Len(ext))

\* the objects group.traverse hands to the callback body
\* (bmd-to-glb.ts:166): meshes with a truthy texturePath
Tagged(os) == {i \in 1..Len(os) : os[i].isMesh /\ os[i].texturePath # <<>>}

\* mutant of isMatch: the base names are not compared
isMatchAnyBase(wantedPath, fBase, fExt) ==
    extMatch(normalizeWanted(wantedPath).ext, fExt) = "true"

\* isMatch of one mesh for one file (bmd-to-glb.ts:167-173)
isMatch(wantedPath, fBase, fExt) ==
    LET w == normalizeWanted(wantedPath)
    IN  extMatch(w.ext, fExt) = "true" /\ w.base = fBase

\* the traversal throws when the extension lookup of some mesh throws
traverseThrows(os, fExt) ==
    \E i \in Tagged(os) : extMatch(normalizeWanted(os[i].texturePath).ext, fExt) = "TypeError"

\* the body of the forEach for a matching mesh (bmd-to-glb.ts:182-196 for
\* ozj / ozt, 208-213 for the other extensions); st = [mats, disposed]
bindMaterial(st, mid, t, fExt) ==
    LET mat  == st.mats[mid]
        disp == IF mat.map # NoTex THEN st.disposed \cup {mat.map} ELSE st.disposed
        m1   == [mat EXCEPT !.map = t, !.color = "ffffff"]
        m2   == IF fExt = OZT
                THEN [m1 EXCEPT !.transparent = TRUE, !.blending = "normal",
                                !.depthWrite = FALSE]
                ELSE IF fExt = OZJ
                THEN [m1 EXCEPT !.transparent = FALSE, !.blending = "none",
                                !.depthWrite = TRUE]
                ELSE m1
    IN  [mats |-> [st.mats EXCEPT ![mid] = [m2 EXCEPT !.needsUpdate = TRUE]],
         disposed |-> disp]

\* meshList.forEach, in traversal order
RECURSIVE bindFrom(_, _, _, _, _, _)
bindFrom(os, k, st, t, fBase, fExt) ==
    IF k > Len(os) THEN st
    ELSE IF k \in Tagged(os) /\ isMatch(os[k].texturePath, fBase, fExt)
    THEN bindFrom(os, k + 1, bindMaterial(st, os[k].mat, t, fExt), t, fBase, fExt)
    ELSE bindFrom(os, k + 1, st, t, fBase, fExt)

\* applied: some mesh of the list matched
applied(os, fBase, fExt) ==
    \E k \in Tagged(os) : isMatch(os[k].texturePath, fBase, fExt)

(***************************************************************************)
(* The inputs of a job.                                                    *)
(***************************************************************************)
\* texturePath tags: "wing.tga", "Weapon01.OZJ", "missing.png",
\* "Data/Wing.jpg", "constructor", "1.jpg"
PathWingTga    == <<"w", "i", "n", "g", ".", "t", "g", "a">>
PathWeaponOzj  == <<"W", "e", "a", "p", "o", "n", "0", "1", ".", "O", "Z", "J">>
PathMissingPng == <<"m", "i", "s", "s", "i", "n", "g", ".", "p", "n", "g">>
PathWingJpg    == <<"D", "a", "t", "a", "/", "W", "i", "n", "g", ".", "j", "p", "g">>
PathConstructor == CONSTRUCTOR
PathOneJpg     == <<"1", ".", "j", "p", "g">>

\* an object of the scene, before its material is attached
ObjKinds ==
    << [isMesh |-> TRUE,  texturePath |-> PathWingTga],
       [isMesh |-> TRUE,  texturePath |-> PathWeaponOzj],
       [isMesh |-> TRUE,  texturePath |-> PathMissingPng],
       [isMesh |-> TRUE,  texturePath |-> PathWingJpg],
       [isMesh |-> TRUE,  texturePath |-> PathConstructor],
       [isMesh |-> TRUE,  texturePath |-> PathOneJpg],
       [isMesh |-> TRUE,  texturePath |-> <<>>],
       [isMesh |-> FALSE, texturePath |-> PathWingTga] >>

\* the scenes of Spec: every object has a material of its own, so what
\* the job does to one object does not depend on its place among the
\* others, and one order of each choice of objects is taken
Scenes ==
    { ks \in [1..NumObjs -> 1..Len(ObjKinds)] :
        \A i, j \in 1..NumObjs : i < j => ks[i] <= ks[j] }

\* file names: "wing.jpg", "WING.OZT", "wing.tga", "weapon01.jpg",
\* "weapon01.ozj", "weapon01.ozt"
NameWingJpg   == <<"w", "i", "n", "g", ".", "j", "p", "g">>
NameWingOzt   == <<"W", "I", "N", "G", ".", "O", "Z", "T">>
NameWingTga   == <<"w", "i", "n", "g", ".", "t", "g", "a">>
NameWeaponJpg == <<"w", "e", "a", "p", "o", "n", "0", "1", ".", "j", "p", "g">>
NameWeaponOzj == <<"w", "e", "a", "p", "o", "n", "0", "1", ".", "o", "z", "j">>
NameWeaponOzt == <<"w", "e", "a", "p", "o", "n", "0", "1", ".", "o", "z", "t">>
NameConstructorPng == CONSTRUCTOR \o <<".", "p", "n", "g">>
NameOneJpg    == <<"1", ".", "j", "p", "g">>

\* the model file main is converting: "model.bmd"
BmdFile == <<"m", "o", "d", "e", "l", ".", "b", "m", "d">>

NameWingPng   == <<"w", "i", "n", "g", ".", "p", "n", "g">>

\* directories: the input directory, "sub" in it, and "a/b/c/d"
RootDir == <<>>
SubDir  == << <<"s", "u", "b">> >>
DeepDir == << <<"a">>, <<"b">>, <<"c">>, <<"d">> >>

\* a regular file of the tree, and a symbolic link
FileEntry(dir, name, data) ==
    [dir |-> dir, name |-> name, kind |-> "file", data |-> data]

LinkEntry(dir, name) ==
    [dir |-> dir, name |-> name, kind |-> "link", data |-> "image"]

FileUniverse ==
    { FileEntry(RootDir, NameWingJpg, "image"),
      FileEntry(RootDir, NameWingOzt, "ozt"),
      FileEntry(RootDir, NameWingTga, "image"),
      FileEntry(DeepDir, NameWeaponJpg, "image"),
      FileEntry(SubDir,  NameWeaponOzj, "ozj"),
      FileEntry(RootDir, NameWeaponOzt, "junk"),
      FileEntry(SubDir,  NameConstructorPng, "image"),
      FileEntry(RootDir, NameOneJpg, "image"),
      LinkEntry(RootDir, NameWingPng) }

\* the entries of one directory, with those of the directories below it,
\* come one after the other in a walk
WalkOrder(fs) ==
    \A i, j, k \in 1..Len(fs) :
        (i < j /\ j < k) =>
            \A n \in 1..Len(fs[i].dir) :
                IsBelow(fs[k].dir, SubSeq(fs[i].dir, 1, n))
                    => IsBelow(fs[j].dir, SubSeq(fs[i].dir, 1, n))

\* a material as the model parser creates it: no map; the flags are those
\* of a new THREE material, or those of a material made for alpha blending
InitialMaterials ==
    { [map |-> NoTex, color |-> "808080", transparent |-> FALSE,
       blending |-> "normal", depthWrite |-> TRUE, needsUpdate |-> FALSE],
      [map |-> NoTex, color |-> "ffffff", transparent |-> TRUE,
       blending |-> "normal", depthWrite |-> FALSE, needsUpdate |-> FALSE] }

\* directory trees: up to MaxFiles different entries, in any order a walk
\* can meet them
Listings ==
    { fs \in UNION { [1..n -> FileUniverse] : n \in 0..MaxFiles } :
        /\ \A i, j \in 1..Len(fs) : i # j => fs[i] # fs[j]
        /\ WalkOrder(fs) }

SniffIdle == buf = <<>> /\ res = NoResult /\ spc = "idle"
ExtIdle   == wantedExt = <<>> /\ fileExt = <<>> /\ extRes = "idle"
JobIdle   == /\ objs = <<>> /\ mats = <<>> /\ mats0 = <<>> /\ files = <<>>
             /\ found = <<>> /\ idx = 0 /\ tex = NoTex /\ disposed = {}
             /\ diags = <<>> /\ thrown = "" /\ pc = "idle"
             /\ pos = 0 /\ stmt = 0 /\ pre = <<>> /\ seen = <<>>

(***************************************************************************)
(* SniffSpec: convertOzjToBuffer on one buffer.                            *)
(***************************************************************************)
SniffInit ==
    /\ buf \in SniffBuffers
    /\ res = NoResult
    /\ spc = "input"
    /\ ExtIdle /\ JobIdle

\* await convertOzjToBuffer(buf); the codec answers as it will
Convert ==
    /\ spc = "input"
    /\ \E codec \in CodecOutcomes : res' = convertOzjToBuffer(buf, codec)
    /\ spc' = "done"
    /\ UNCHANGED <<buf, extVars, jobVars>>

SniffNext == Convert

SniffSpec == SniffInit /\ [][SniffNext]_vars

(***************************************************************************)
(* ExtSpec: the extension check on one pair of extensions.                 *)
(***************************************************************************)
ExtInit ==
    /\ wantedExt \in ExtUniverse
    /\ fileExt \in ExtUniverse
    /\ extRes = "unset"
    /\ SniffIdle /\ JobIdle

Match ==
    /\ extRes = "unset"
    /\ extRes' = extMatch(wantedExt, fileExt)
    /\ UNCHANGED <<wantedExt, fileExt, sniffVars, jobVars>>

ExtNext == Match

ExtSpec == ExtInit /\ [][ExtNext]_vars

(***************************************************************************)
(* Spec: one run of convertBmdToGlb, as main calls it.                     *)
(***************************************************************************)
Init ==
    /\ \E ks \in Scenes :
          objs = [i \in 1..NumObjs |->
                    [isMesh |-> ObjKinds[ks[i]].isMesh,
                     texturePath |-> ObjKinds[ks[i]].texturePath, mat |-> i]]
    /\ \E m \in InitialMaterials : mats = [i \in 1..NumObjs |-> m]
    /\ mats0 = mats
    /\ files \in Listings
    /\ found = <<>> /\ idx = 0 /\ tex = NoTex /\ disposed = {}
    /\ diags = <<>> /\ thrown = "" /\ pc = "search"
    /\ pos = 0 /\ stmt = 0 /\ pre = <<>> /\ seen = <<>>
    /\ SniffIdle /\ ExtIdle

\* bmd-to-glb.ts:16-17: the directory walk
SearchTextures ==
    /\ pc = "search"
    /\ found' = searchTextures(files, requiredTexturesOf(objs))
    /\ idx' = 1
    /\ pc' = "loop"
    /\ UNCHANGED <<objs, mats, mats0, files, tex, disposed, diags, thrown,
                   sniffVars, extVars, bindVars>>

\* one iteration of the loop of convertBmdToGlb, up to the last await of
\* loadAndApplyTexture: texturePaths[0] is read and decoded.  An error is
\* not caught before main (bmd-to-glb.ts:318-323), which logs it.
LoadTexture ==
    /\ pc = "loop" /\ idx <= Len(found)
    /\ LET file == found[idx].paths[1]
           err  == loadError(file)
       IN  IF err = ""
           THEN /\ tex' = [id |-> idx, name |-> PathBasename(file.name)]
                /\ pc' = "decoded"
                /\ UNCHANGED <<diags, thrown>>
           ELSE /\ thrown' = err
                /\ diags' = Append(diags, [kind |-> "FailedToConvert", name |-> BmdFile])
                /\ pc' = "failed"
                /\ UNCHANGED tex
    /\ UNCHANGED <<objs, mats, mats0, files, found, idx, disposed,
                   sniffVars, extVars, bindVars>>

\* the rest of loadAndApplyTexture (bmd-to-glb.ts:139-220), which runs
\* without an await: the meshes are listed and the matching ones bound
ApplyTexture ==
    /\ pc = "decoded"
    /\ LET fBase == fileBaseOf(tex.name)
           fExt  == fileExtOf(tex.name)
       IN  IF traverseThrows(objs, fExt)
           THEN /\ thrown' = "TypeError: includes is not a function"
                /\ diags' = Append(diags, [kind |-> "FailedToConvert", name |-> BmdFile])
                /\ pc' = "failed"
                /\ UNCHANGED <<mats, disposed, idx, tex>>
           ELSE LET st == bindFrom(objs, 1, [mats |-> mats, disposed |-> disposed],
                                   tex, fBase, fExt)
                IN  /\ mats' = st.mats
                    /\ disposed' = st.disposed
                    /\ diags' = IF applied(objs, fBase, fExt) THEN diags
                                ELSE Append(diags, [kind |-> "NoMatchingMesh",
                                                    name |-> tex.name])
                    /\ idx' = idx + 1
                    /\ tex' = NoTex
                    /\ pc' = "loop"
                    /\ UNCHANGED thrown
    /\ UNCHANGED <<objs, mats0, files, found, sniffVars, extVars, bindVars>>

\* calls of the error callback that one export is followed through
MaxErrorCalls == 1

ErrorCalls ==
    Cardinality({d \in 1..Len(diags) : diags[d].kind = "GLTFExporterError"})

\* how the await of line 29 ends, when it ends:
\*   "written"  the result callback is called, the promise resolves and the
\*              file is written (lines 31, 37-38)
\*   "thrown"   parse throws before the result callback is called and the
\*              promise rejects, or Buffer.from / writeFileSync throws
\* When neither happens the job stays in the await for ever.
ExporterOutcomes == {"written", "thrown"}

\* bmd-to-glb.ts:28-36: the loop is over, exporter.parse is called and the
\* job waits in the await of line 29
Export ==
    /\ pc = "loop" /\ idx > Len(found)
    /\ pc' = "exporting"
    /\ UNCHANGED <<objs, mats, mats0, files, found, idx, tex, disposed, diags,
                   thrown, sniffVars, extVars, bindVars>>

\* bmd-to-glb.ts:32-33: the exporter calls the error callback, which logs
\* and settles nothing; the job goes on waiting
ExporterError ==
    /\ pc = "exporting" /\ ErrorCalls < MaxErrorCalls
    /\ diags' = Append(diags, [kind |-> "GLTFExporterError", name |-> <<>>])
    /\ UNCHANGED <<objs, mats, mats0, files, found, idx, tex, disposed,
                   thrown, pc, sniffVars, extVars, bindVars>>

\* the await of line 29 ends: the file is written (37-38), or the error
\* thrown leaves convertBmdToGlb and main logs it (321-323)
ExportEnd ==
    /\ pc = "exporting"
    /\ \E outcome \in ExporterOutcomes :
          IF outcome = "written"
          THEN pc' = "done" /\ UNCHANGED <<diags, thrown>>
          ELSE /\ pc' = "failed"
               /\ thrown' = "Error thrown by the exporter or the write"
               /\ diags' = Append(diags, [kind |-> "FailedToConvert",
                                          name |-> BmdFile])
    /\ UNCHANGED <<objs, mats, mats0, files, found, idx, tex, disposed,
                   sniffVars, extVars, bindVars>>

Next ==
    \/ SearchTextures \/ LoadTexture \/ ApplyTexture
    \/ Export \/ ExporterError \/ ExportEnd

Spec == Init /\ [][Next]_vars

(***************************************************************************)
(* BindSpec: the same job with the forEach of loadAndApplyTexture run one  *)
(* statement at a time, over scenes in which objects may share a material  *)
(* object and materials may already hold a texture.  Another task may look *)
(* at the scene wherever the job is suspended in an await.                 *)
(***************************************************************************)
\* a texture made before the job: "old.png"
OldTex == [id |-> 0, name |-> <<"o", "l", "d", ".", "p", "n", "g">>]

BindObjKinds ==
    { [isMesh |-> TRUE, texturePath |-> PathWingTga],
      [isMesh |-> TRUE, texturePath |-> PathWingJpg],
      [isMesh |-> TRUE, texturePath |-> PathWeaponOzj],
      [isMesh |-> TRUE, texturePath |-> PathConstructor] }

BindFiles ==
    { FileEntry(RootDir, NameWingTga, "image"),
      FileEntry(RootDir, NameWingOzt, "ozt"),
      FileEntry(SubDir,  NameWeaponOzj, "ozj") }

BindListings ==
    { fs \in UNION { [1..n -> BindFiles] : n \in 0..MaxFiles } :
        \A i, j \in 1..Len(fs) : i # j => fs[i] # fs[j] }

\* a new THREE material: grey tint, opaque, normal blending
NewMaterial == CHOOSE m \in InitialMaterials : ~m.transparent

\* mutant of BodyOrder: the map is assigned before the old one is released
BodyOrderMapFirst == <<"map", "dispose", "color", "flags", "needsUpdate">>

\* the statements of the forEach body, in the order of the source
\* (bmd-to-glb.ts:183-195 and 209-212)
BodyOrder == <<"dispose", "map", "color", "flags", "needsUpdate">>

\* the positions at which the job is suspended in an await: loader.load
\* (line 12), the decoders (117-130), loadAndApplyTexture (24), the export
\* (29), and the end of the job; traverse and forEach callbacks hold none
Suspended(p) ==
    p \in {"search", "loop", "decoded", "exporting", "done", "failed"}

\* if (mat.map) mat.map.dispose();   (bmd-to-glb.ts:183, 209)
disposeMap(mat, disp) == IF mat.map # NoTex THEN disp \cup {mat.map} ELSE disp

\* the rendering flags an ozj / ozt file sets (bmd-to-glb.ts:186-194);
\* the branch of the other extensions has no such statement
setFlags(mat, fExt) ==
    IF fExt = OZT
    THEN [mat EXCEPT !.transparent = TRUE, !.blending = "normal",
                     !.depthWrite = FALSE]
    ELSE IF fExt = OZJ
    THEN [mat EXCEPT !.transparent = FALSE, !.blending = "none",
                     !.depthWrite = TRUE]
    ELSE mat

BindInit ==
    /\ \E kinds \in [1..NumObjs -> BindObjKinds] :
       \E share \in [1..NumObjs -> 1..NumObjs] :
          /\ \A i \in 1..NumObjs : share[i] <= i
          /\ objs = [i \in 1..NumObjs |->
                       [isMesh |-> kinds[i].isMesh,
                        texturePath |-> kinds[i].texturePath,
                        mat |-> share[i]]]
    /\ \E held \in [1..NumObjs -> {NoTex, OldTex}] :
          /\ \A m \in 1..NumObjs :
                (\A i \in 1..NumObjs : objs[i].mat # m) => held[m] = NoTex
          /\ mats = [m \in 1..NumObjs |-> [NewMaterial EXCEPT !.map = held[m]]]
    /\ mats0 = mats
    /\ files \in BindListings
    /\ found = <<>> /\ idx = 0 /\ tex = NoTex /\ disposed = {}
    /\ diags = <<>> /\ thrown = "" /\ pc = "search"
    /\ pos = 0 /\ stmt = 0
    /\ pre = [mats |-> mats, disposed |-> {}, tex |-> NoTex]
    /\ seen = [mats |-> mats, pre |-> pre]
    /\ SniffIdle /\ ExtIdle

\* group.traverse (bmd-to-glb.ts:164-176): the meshes and their isMatch
\* are listed; the forEach starts at the first of them
Traverse ==
    /\ pc = "decoded"
    /\ IF traverseThrows(objs, fileExtOf(tex.name))
       THEN /\ thrown' = "TypeError: includes is not a function"
            /\ diags' = Append(diags, [kind |-> "FailedToConvert", name |-> BmdFile])
            /\ pc' = "failed"
            /\ UNCHANGED <<pos, pre>>
       ELSE /\ pos' = 1
            /\ pre' = [mats |-> mats, disposed |-> disposed, tex |-> tex]
            /\ pc' = "forEach"
            /\ UNCHANGED <<thrown, diags>>
    /\ UNCHANGED <<objs, mats, mats0, files, found, idx, tex, disposed, stmt,
                   seen, sniffVars, extVars>>

\* meshList.forEach(m => { if (m.isMatch) { ... } })  (lines 180-181, 206-207)
ForEach ==
    /\ pc = "forEach" /\ pos <= Len(objs)
    /\ IF pos \in Tagged(objs)
          /\ isMatch(objs[pos].texturePath, fileBaseOf(tex.name), fileExtOf(tex.name))
       THEN pc' = "body" /\ stmt' = 1 /\ UNCHANGED pos
       ELSE pos' = pos + 1 /\ UNCHANGED <<pc, stmt>>
    /\ UNCHANGED <<objs, mats, mats0, files, found, idx, tex, disposed, diags,
                   thrown, pre, seen, sniffVars, extVars>>

\* the statement that runs next in the body, and the move past it
AtStatement(name) == pc = "body" /\ BodyOrder[stmt] = name

NextStatement ==
    IF stmt < Len(BodyOrder)
    THEN stmt' = stmt + 1 /\ UNCHANGED <<pos, pc>>
    ELSE stmt' = 0 /\ pos' = pos + 1 /\ pc' = "forEach"

\* if (mat.map) mat.map.dispose();
Dispose ==
    /\ AtStatement("dispose")
    /\ disposed' = disposeMap(mats[objs[pos].mat], disposed)
    /\ NextStatement
    /\ UNCHANGED <<objs, mats, mats0, files, found, idx, tex, diags, thrown,
                   pre, seen, sniffVars, extVars>>

\* mat.map = tex;
SetMap ==
    /\ AtStatement("map")
    /\ mats' = [mats EXCEPT ![objs[pos].mat].map = tex]
    /\ NextStatement
    /\ UNCHANGED <<objs, mats0, files, found, idx, tex, disposed, diags,
                   thrown, pre, seen, sniffVars, extVars>>

\* mat.color.set(0xffffff);
SetColor ==
    /\ AtStatement("color")
    /\ mats' = [mats EXCEPT ![objs[pos].mat].color = "ffffff"]
    /\ NextStatement
    /\ UNCHANGED <<objs, mats0, files, found, idx, tex, disposed, diags,
                   thrown, pre, seen, sniffVars, extVars>>

\* if (fileExt === 'ozt') { ... } else { ... }, in the ozj / ozt branch only
SetFlags ==
    /\ AtStatement("flags")
    /\ mats' = [mats EXCEPT ![objs[pos].mat] = setFlags(@, fileExtOf(tex.name))]
    /\ NextStatement
    /\ UNCHANGED <<objs, mats0, files, found, idx, tex, disposed, diags,
                   thrown, pre, seen, sniffVars, extVars>>

\* mat.needsUpdate = true; applied = true;
SetNeedsUpdate ==
    /\ AtStatement("needsUpdate")
    /\ mats' = [mats EXCEPT ![objs[pos].mat].needsUpdate = TRUE]
    /\ NextStatement
    /\ UNCHANGED <<objs, mats0, files, found, idx, tex, disposed, diags,
                   thrown, pre, seen, sniffVars, extVars>>

\* if (!applied) console.warn(...); loadAndApplyTexture returns and the
\* loop of convertBmdToGlb moves on  (lines 200-202, 217-219, 21-25)
Applied ==
    /\ pc = "forEach" /\ pos > Len(objs)
    /\ diags' = IF applied(objs, fileBaseOf(tex.name), fileExtOf(tex.name))
                THEN diags
                ELSE Append(diags, [kind |-> "NoMatchingMesh", name |-> tex.name])
    /\ idx' = idx + 1
    /\ tex' = NoTex
    /\ pos' = 0
    /\ pc' = "loop"
    /\ UNCHANGED <<objs, mats, mats0, files, found, disposed, thrown, stmt,
                   pre, seen, sniffVars, extVars>>

\* another task runs while the job is suspended and looks at the scene
Observe ==
    /\ Suspended(pc)
    /\ seen' = [mats |-> mats, pre |-> pre]
    /\ seen' # seen
    /\ UNCHANGED <<objs, mats, mats0, files, found, idx, tex, disposed, diags,
                   thrown, pc, pos, stmt, pre, sniffVars, extVars>>

BindNext ==
    \/ SearchTextures \/ LoadTexture \/ Traverse \/ ForEach
    \/ Dispose \/ SetMap \/ SetColor \/ SetFlags \/ SetNeedsUpdate
    \/ Applied \/ Export \/ ExporterError \/ ExportEnd \/ Observe

BindSpec == BindInit /\ [][BindNext]_vars

\* the statements of the body, run one by one over the list, do what the
\* single step of Spec does
BindAgreesWithApply ==
    (pc = "forEach" /\ pos > Len(objs)) =>
        LET st == bindFrom(objs, 1, [mats |-> pre.mats, disposed |-> pre.disposed],
                           tex, fileBaseOf(tex.name), fileExtOf(tex.name))
        IN  mats = st.mats /\ disposed = st.disposed

(***************************************************************************)
(* The error kinds of the specification, for the errors the code throws.   *)
(* The code has no error of its own for truncated pixel data.              *)
(***************************************************************************)
ErrorKind(msg) ==
    CASE msg \in {ErrTooSmall, ErrUnsupported} -> "UnsupportedContainer"
      [] msg = ErrJpeg                         -> "DecodeError"
      [] OTHER                                 -> "none"

(***************************************************************************)
(* Vocabulary of the claims, stated on the bytes and not on the code.      *)
(***************************************************************************)
\* unsigned 16-bit little-endian field at offset off
U16LE(u8, off) == u8[off + 1] + 256 * u8[off + 2]

\* offsets k in 20..29 where FF D8 FF lies wholly inside the buffer
MarkerOffsets(u8) ==
    { k \in 20..29 : /\ k + 2 < Len(u8)
                     /\ u8[k + 1] = 255 /\ u8[k + 2] = 216 /\ u8[k + 3] = 255 }

FirstMarker(u8) == CHOOSE k \in MarkerOffsets(u8) : \A j \in MarkerOffsets(u8) : k <= j

\* the OZT validation of the specification
ValidOztHeader(u8) ==
    /\ Len(u8) >= 22
    /\ U16LE(u8, 16) > 0 /\ U16LE(u8, 18) > 0
    /\ U16LE(u8, 16) <= 1024 /\ U16LE(u8, 18) <= 1024
    /\ u8[21] = 32
    /\ 22 + U16LE(u8, 16) * U16LE(u8, 18) * 4 <= Len(u8)

\* 22 + w*h*4 > len, computed without leaving 32-bit integers
PixelBytesExceed(w, h, len) ==
    \/ len < 22
    \/ LET q == (len - 22) \div 4
       IN  w > 0 /\ h > 0 /\ (w > q \/ h > q \/ w * h > q)

\* the header declares more pixel bytes than the buffer holds
DeclaresTooMuch(u8) ==
    /\ Len(u8) >= 20
    /\ MarkerOffsets(u8) = {}
    /\ PixelBytesExceed(U16LE(u8, 16), U16LE(u8, 18), Len(u8))

(***************************************************************************)
(* C1.  Container sniffing: a buffer with FF D8 FF at an offset k in       *)
(* 20..29 (wholly inside it) is handed to the OZJ decoder with the first   *)
(* such k, even when its header also passes the OZT validation; otherwise  *)
(* it is taken as OZT iff the validation passes; every other buffer fails  *)
(* with UnsupportedContainer and no bitmap.                                *)
(***************************************************************************)
C1_Sniffing ==
    spc = "done" =>
        IF MarkerOffsets(buf) # {}
        THEN res.via = "ozjToPng" /\ res.jpgStart = FirstMarker(buf)
        ELSE IF ValidOztHeader(buf)
        THEN res.via = "oztToPng" /\ res.kind = "bitmap"
        ELSE /\ res.via = "none" /\ res.kind = "error"
             /\ ErrorKind(res.error) = "UnsupportedContainer"
             /\ res.pixels = <<>>

\* a buffer that is both: a marker past the header and a valid OZT header
C1_Witness ==
    /\ spc = "done"
    /\ MarkerOffsets(buf) # {} /\ FirstMarker(buf) > 21
    /\ ValidOztHeader(buf)
    /\ res.via = "ozjToPng"

(***************************************************************************)
(* C2.  OZT decoding: the bitmap has the declared width and height and     *)
(* width*height*4 bytes; the pixel at row y, column x is (s[2], s[1],      *)
(* s[0], s[3]) for the source quad s at offset 22 + 4*(y*width + x), rows  *)
(* in source order; the worked example decodes to (FF,00,00,FF),           *)
(* (30,20,10,FF).                                                          *)
(***************************************************************************)
C2_OztPixels ==
    (spc = "done" /\ MarkerOffsets(buf) = {} /\ ValidOztHeader(buf)) =>
        LET w == U16LE(buf, 16)
            h == U16LE(buf, 18)
        IN  /\ res.kind = "bitmap"
            /\ res.width = w /\ res.height = h
            /\ Len(res.pixels) = w * h * 4
            /\ \A y \in 0..(h - 1), x \in 0..(w - 1) :
                  LET s == 22 + 4 * (y * w + x)
                      d == 4 * (y * w + x)
                  IN  /\ res.pixels[d + 1] = buf[s + 3]
                      /\ res.pixels[d + 2] = buf[s + 2]
                      /\ res.pixels[d + 3] = buf[s + 1]
                      /\ res.pixels[d + 4] = buf[s + 4]
            /\ buf = ExampleOzt => res.pixels = <<255, 0, 0, 255, 48, 32, 16, 255>>

\* a decoded 2 x 2 bitmap whose two rows differ and whose channels differ
C2_Witness ==
    /\ spc = "done" /\ res.via = "oztToPng"
    /\ res.width = 2 /\ res.height = 2
    /\ SubSeq(res.pixels, 1, 8) # SubSeq(res.pixels, 9, 16)
    /\ res.pixels[1] # res.pixels[3]

(***************************************************************************)
(* C7 as stated.  A buffer without marker whose header declares more       *)
(* pixel bytes than it holds fails with TruncatedData and gives no bitmap. *)
(***************************************************************************)
C7_TruncatedData ==
    (spc = "done" /\ DeclaresTooMuch(buf)) =>
        /\ res.kind = "error" /\ res.pixels = <<>>
        /\ ErrorKind(res.error) = "TruncatedData"

(***************************************************************************)
(* C7 as amended.  Such a buffer fails with UnsupportedContainer (the      *)
(* sniffer rejects it, the OZT decoder never runs) and gives no bitmap.    *)
(***************************************************************************)
C7_TruncatedRejected ==
    (spc = "done" /\ DeclaresTooMuch(buf)) =>
        /\ res.kind = "error" /\ res.pixels = <<>>
        /\ res.via = "none"
        /\ ErrorKind(res.error) = "UnsupportedContainer"

\* a header that is valid but for the missing pixel bytes
C7_Witness ==
    /\ spc = "done" /\ DeclaresTooMuch(buf) /\ Len(buf) >= 22
    /\ U16LE(buf, 16) \in 1..1024 /\ U16LE(buf, 18) \in 1..1024
    /\ buf[21] = 32
    /\ res.kind = "error"

(***************************************************************************)
(* C9.  Bounds safety: no run of convertOzjToBuffer, ozjToPng or oztToPng  *)
(* reads a byte at an index outside the buffer, whatever its length, and   *)
(* each run ends with a bitmap or with an error.                           *)
(***************************************************************************)
C9_ReadsInBounds ==
    spc = "done" =>
        /\ \A i \in res.reads : i >= 0 /\ i < Len(buf)
        /\ \/ res.kind = "bitmap" /\ res.error = ""
           \/ res.kind = "error" /\ res.error # "" /\ res.pixels = <<>>

\* a short buffer that ends inside the scan window and begins a marker at
\* its last bytes
C9_Witness ==
    /\ spc = "done"
    /\ Len(buf) \in 21..31
    /\ buf[Len(buf)] = 255
    /\ Len(buf) - 1 \in res.reads

(***************************************************************************)
(* C3 as stated.  matches(wanted, candidate) is true iff the extensions    *)
(* are equal or one is in the equivalents of the other, an extension       *)
(* absent from the table having none; for every pair of extensions.        *)
(***************************************************************************)
Equivalents(e) ==
    CASE e = JPG  -> {OZJ, JPEG}
      [] e = JPEG -> {OZJ, JPG}
      [] e = OZJ  -> {JPG, JPEG, PNG}
      [] e = PNG  -> {OZJ, OZT}
      [] e = TGA  -> {OZT, PNG}
      [] e = OZT  -> {TGA, PNG}
      [] OTHER    -> {}

Matches(wanted, candidate) ==
    \/ wanted = candidate
    \/ candidate \in Equivalents(wanted)
    \/ wanted \in Equivalents(candidate)

C3_Matches ==
    extRes # "unset" /\ extRes # "idle" =>
        /\ extRes \in {"true", "false"}
        /\ (extRes = "true") <=> Matches(wantedExt, fileExt)

(***************************************************************************)
(* Vocabulary of the job claims.                                           *)
(***************************************************************************)
\* the material of object i
MatOf(i) == mats[objs[i].mat]

\* the CandidateSet entry of a base name: its files in discovery order
EntryOf(base) ==
    LET at == {n \in 1..Len(found) : found[n].name = base}
    IN  IF at = {} THEN <<>> ELSE found[CHOOSE n \in at : TRUE].paths

\* candidate f satisfies the reference w = (base, ext) of a mesh
Satisfies(w, f) ==
    fileBaseOf(f.name) = w.base /\ Matches(w.ext, fileExtOf(f.name))

\* positions of the satisfying candidates in the entry of mesh i
Eligible(i) ==
    LET w == normalizeWanted(objs[i].texturePath)
        e == EntryOf(w.base)
    IN  {k \in 1..Len(e) : Satisfies(w, e[k])}

\* the texture of object i is the one made from file f
BoundTo(i, f) == MatOf(i).map # NoTex /\ MatOf(i).map.name = PathBasename(f.name)

(***************************************************************************)
(* C4 as stated.  When the job is done every tagged mesh is bound to the   *)
(* first candidate of its entry, in discovery order, that has its base     *)
(* name and a matching extension: earlier candidates that fail the check   *)
(* are skipped, so a mesh with an eligible candidate ends bound.           *)
(***************************************************************************)
C4_FirstEligibleCandidate ==
    pc = "done" =>
        \A i \in Tagged(objs) :
            Eligible(i) # {} =>
                LET e == EntryOf(normalizeWanted(objs[i].texturePath).base)
                    k == CHOOSE k \in Eligible(i) : \A j \in Eligible(i) : k <= j
                IN  BoundTo(i, e[k])

(***************************************************************************)
(* C5 as stated.  A bound material has the flags of the accepted file's    *)
(* extension: ozt and tga give transparent, normal blending, no depth      *)
(* write; every other extension gives opaque, no blending, depth write.    *)
(***************************************************************************)
C5_FlagsFromFileExt ==
    \A i \in 1..Len(objs) :
        MatOf(i).map # NoTex =>
            IF fileExtOf(MatOf(i).map.name) \in {OZT, TGA}
            THEN /\ MatOf(i).transparent  /\ MatOf(i).blending = "normal"
                 /\ ~MatOf(i).depthWrite
            ELSE /\ ~MatOf(i).transparent /\ MatOf(i).blending = "none"
                 /\ MatOf(i).depthWrite

(***************************************************************************)
(* C6 as stated.  A texture name whose file cannot be read, sniffed or     *)
(* decoded does not keep the other names from being bound: when the job    *)
(* has ended, in whatever order the names were taken, every mesh is bound  *)
(* whose own texture name has a first file that decodes and matches.       *)
(* (Stated for scenes whose tags all carry extensions of the table, so     *)
(* that only the decoding can fail.)                                       *)
(***************************************************************************)
C6_FailureIsolated ==
    (/\ pc \in {"done", "failed"}
     /\ \A i \in Tagged(objs) : normalizeWanted(objs[i].texturePath).ext \in KnownExts
     /\ \E n \in 1..Len(found) : loadError(found[n].paths[1]) # "") =>
        \A i \in Tagged(objs), n \in 1..Len(found) :
            (/\ loadError(found[n].paths[1]) = ""
             /\ Satisfies(normalizeWanted(objs[i].texturePath), found[n].paths[1]))
            => BoundTo(i, found[n].paths[1])

(***************************************************************************)
(* C8 as stated.  When the job is done a tagged mesh without satisfying    *)
(* candidate has no map and a NoMatchingTexture diagnostic names its       *)
(* texture, and every mesh that has a satisfying candidate is bound.       *)
(***************************************************************************)
C8_UnmatchedReported ==
    pc = "done" =>
        \A i \in Tagged(objs) :
            IF Eligible(i) = {}
            THEN /\ MatOf(i).map = NoTex
                 /\ \E d \in 1..Len(diags) :
                       /\ diags[d].kind = "NoMatchingTexture"
                       /\ diags[d].name = objs[i].texturePath
            ELSE MatOf(i).map # NoTex

(***************************************************************************)
(* C10.  Frame of a bind: a step changes the material only of meshes       *)
(* tagged with a texturePath whose base name is that of the file being     *)
(* applied and whose extension matches it; the material of every other     *)
(* object is left as it was.                                               *)
(***************************************************************************)
BindTarget(i) ==
    /\ pc = "decoded"
    /\ objs[i].isMesh /\ objs[i].texturePath # <<>>
    /\ Satisfies(normalizeWanted(objs[i].texturePath), [name |-> tex.name])

C10_BindFrame ==
    [][\A i \in 1..Len(objs) :
          BindTarget(i) \/ mats'[objs[i].mat] = mats[objs[i].mat]]_vars

\* one mesh has been bound while a mesh of another base name, tagged too,
\* still has the material it started with
C10_Witness ==
    \E i, j \in Tagged(objs) :
        /\ MatOf(i).map # NoTex
        /\ normalizeWanted(objs[i].texturePath).base
              # normalizeWanted(objs[j].texturePath).base
        /\ \E n \in 1..Len(found) :
              found[n].name = normalizeWanted(objs[j].texturePath).base
        /\ MatOf(j) = mats0[objs[j].mat]


(***************************************************************************)
(* C11.  Order of a rebind: when the body of the bind runs for a mesh      *)
(* whose material holds a map, that texture is released before the map is  *)
(* replaced; when the body ends the map is the new texture, the tint is    *)
(* full white and needsUpdate is set; a release happens only in the body   *)
(* of a bind and only for a map the material holds, so a material without  *)
(* a map has nothing released.                                             *)
(***************************************************************************)
\* the material the forEach body is working on
BodyMat == objs[pos].mat

C11_RebindOrder ==
    [][/\ \A m \in 1..Len(mats) :
             mats'[m].map # mats[m].map =>
                /\ pc = "body" /\ m = BodyMat
                /\ mats'[m].map = tex
                /\ mats[m].map = NoTex \/ mats[m].map \in disposed
       /\ disposed' # disposed =>
             /\ pc = "body"
             /\ mats[BodyMat].map # NoTex
             /\ disposed' = disposed \cup {mats[BodyMat].map}
       /\ (pc = "body" /\ pc' # "body") =>
             /\ mats'[BodyMat].map = tex
             /\ mats'[BodyMat].color = "ffffff"
             /\ mats'[BodyMat].needsUpdate
             /\ pre.mats[BodyMat].map # NoTex =>
                   pre.mats[BodyMat].map \in disposed'
      ]_vars

\* a bind has replaced the map a material held by the texture of the file,
\* and the old map is released
C11_Witness ==
    /\ pc = "loop"
    /\ \E i \in Tagged(objs) :
          /\ pre.mats[objs[i].mat].map # NoTex
          /\ pre.mats[objs[i].mat].map # pre.tex
          /\ mats[objs[i].mat].map = pre.tex
          /\ pre.mats[objs[i].mat].map \in disposed


(***************************************************************************)
(* C12 as stated.  A task that looks at the scene while the job is         *)
(* suspended in an await never sees a half-updated material: every         *)
(* material it sees is as it was when the current or last bind began, or   *)
(* carries the new map together with the white tint, the rendering flags   *)
(* that correspond to the file the map was made from, and needsUpdate.     *)
(***************************************************************************)
\* the binding steps 4 to 6 of the binder install for texture t
FullyBound(mat, t) ==
    LET alpha == fileExtOf(t.name) \in {OZT, TGA}
    IN  [map |-> t, color |-> "ffffff",
         transparent |-> alpha,
         blending    |-> IF alpha THEN "normal" ELSE "none",
         depthWrite  |-> ~alpha,
         needsUpdate |-> TRUE]

HalfUpdated(scene, before, m) ==
    /\ scene[m] # before.mats[m]
    /\ before.tex = NoTex \/ scene[m] # FullyBound(before.mats[m], before.tex)

C12_NoHalfUpdate ==
    \A m \in 1..Len(seen.mats) : ~HalfUpdated(seen.mats, seen.pre, m)

\* what the forEach body, run to its end, makes of mat (lines 182-196,
\* 208-213)
AsBound(mat, t) ==
    [setFlags([mat EXCEPT !.map = t, !.color = "ffffff"], fileExtOf(t.name))
        EXCEPT !.needsUpdate = TRUE]

\* the part of C12 the code has: no await lies between the statements of
\* the body, so a material is seen as the bind found it or as the whole
\* body leaves it, never in between
SeenBetweenBinds ==
    \A m \in 1..Len(seen.mats) :
        \/ seen.mats[m] = seen.pre.mats[m]
        \/ /\ seen.pre.tex # NoTex
           /\ seen.mats[m] = AsBound(seen.pre.mats[m], seen.pre.tex)

(***************************************************************************)
(* C13.  No material references a released texture: once a bind is over,   *)
(* the map of every mesh material is empty or a texture on which dispose   *)
(* was not called; and while a bind runs, the texture it installs is not   *)
(* released.                                                               *)
(***************************************************************************)
C13_NoReleasedMap ==
    /\ pc \in {"loop", "exporting", "done"} =>
          \A i \in 1..Len(objs) :
              objs[i].isMesh =>
                  MatOf(i).map = NoTex \/ MatOf(i).map \notin disposed
    /\ pc \in {"forEach", "body"} => tex \notin disposed

=============================================================================
